---- MODULE Spec2Model ----
(***************************************************************************)
(* Model of the broker list-applications request/response contract and of  *)
(* the Application entity (list-applications.dto.ts).                      *)
(*                                                                         *)
(* JavaScript values are records tagged by "kind".  A Date carries its     *)
(* time value in whole days since 1970-01-01 UTC (every date string of the *)
(* model is a date-only string, which JavaScript reads as UTC midnight).   *)
(* Strings that are parsed carry their characters as a sequence; strings   *)
(* that are only compared (enumeration members) are TLA+ strings.          *)
(***************************************************************************)
EXTENDS Integers, Sequences, FiniteSets

VARIABLES query, dto, outcome, applications, nextId, lastOp

vars == <<query, dto, outcome, applications, nextId, lastOp>>

filterVars == <<query, dto, outcome>>

entityVars == <<applications, nextId, lastOp>>

(***************************************************************************)
(* Bounds                                                                  *)
(***************************************************************************)
MaxStatusLen == 2

MaxRows == 2

(***************************************************************************)
(* JavaScript values                                                       *)
(***************************************************************************)
Undefined == [kind |-> "undefined"]

Null == [kind |-> "null"]

NaN == [kind |-> "NaN"]

Num(n) == [kind |-> "number", n |-> n]

Str(s) == [kind |-> "string", s |-> s]

Arr(items) == [kind |-> "array", items |-> items]

DateObj(t) == [kind |-> "date", valid |-> TRUE, time |-> t]

InvalidDate == [kind |-> "date", valid |-> FALSE, time |-> 0]

IsNullish(v) == v.kind \in {"undefined", "null"}

\* JavaScript truthiness: undefined, null, NaN, 0 and "" are falsy.
Truthy(v) ==
  CASE v.kind \in {"undefined", "null", "NaN"} -> FALSE
    [] v.kind = "number" -> v.n # 0
    [] v.kind = "string" -> v.s # <<>> /\ v.s # ""
    [] OTHER -> TRUE

\* a || b
JsOr(a, b) == IF Truthy(a) THEN a ELSE b

(***************************************************************************)
(* new Date(string): the date-only ISO form YYYY-MM-DD.  The month must be *)
(* 01..12 and the day 01..31; a day past the end of the month rolls over.  *)
(* Every other string of the model's inputs is an Invalid Date.            *)
(***************************************************************************)
DigitChars == {"0", "1", "2", "3", "4", "5", "6", "7", "8", "9"}

DigitValue(c) ==
  CASE c = "0" -> 0 [] c = "1" -> 1 [] c = "2" -> 2 [] c = "3" -> 3
    [] c = "4" -> 4 [] c = "5" -> 5 [] c = "6" -> 6 [] c = "7" -> 7
    [] c = "8" -> 8 [] c = "9" -> 9

RECURSIVE ParseInt(_)
ParseInt(cs) ==
  IF cs = <<>> THEN 0
  ELSE 10 * ParseInt(SubSeq(cs, 1, Len(cs) - 1)) + DigitValue(cs[Len(cs)])

AllDigits(cs) == \A i \in 1..Len(cs) : cs[i] \in DigitChars

DaysFromCivil(y, m, d) ==
  LET yy  == IF m <= 2 THEN y - 1 ELSE y
      era == yy \div 400
      yoe == yy - era * 400
      mp  == IF m > 2 THEN m - 3 ELSE m + 9
      doy == (153 * mp + 2) \div 5 + d - 1
      doe == yoe * 365 + yoe \div 4 - yoe \div 100 + doy
  IN  era * 146097 + doe - 719468

DateParse(cs) ==
  IF /\ Len(cs) = 10
     /\ cs[5] = "-"
     /\ cs[8] = "-"
     /\ AllDigits(SubSeq(cs, 1, 4))
     /\ AllDigits(SubSeq(cs, 6, 7))
     /\ AllDigits(SubSeq(cs, 9, 10))
  THEN LET y == ParseInt(SubSeq(cs, 1, 4))
           m == ParseInt(SubSeq(cs, 6, 7))
           d == ParseInt(SubSeq(cs, 9, 10))
       IN  IF m \in 1..12 /\ d \in 1..31
           THEN DateObj(DaysFromCivil(y, m, 1) + d - 1)
           ELSE InvalidDate
  ELSE InvalidDate

\* new Date(value) for the values the transform can see
NewDate(v) ==
  CASE v.kind = "date" -> v
    [] v.kind = "string" -> DateParse(v.s)
    [] OTHER -> InvalidDate

\* isNaN(date.getTime())
IsNaNTime(d) == ~d.valid

(***************************************************************************)
(* Enumerations and response messages imported by the file                 *)
(***************************************************************************)
ApplicationStatus == {"Pending", "InProgress", "Completed", "OnHold"}

TaskStatus == {"Pending", "InProgress", "Completed"}

INVALID_MINIMUM_DATE_ERROR == "INVALID_MINIMUM_DATE_ERROR"

INVALID_MAXIMUM_DATE_ERROR == "INVALID_MAXIMUM_DATE_ERROR"

MINIMUM_DATE_EXCEEDS_MAXIMUM_DATE_ERROR == "MINIMUM_DATE_EXCEEDS_MAXIMUM_DATE_ERROR"

BAD_REQUEST_ERRORS ==
  {INVALID_MINIMUM_DATE_ERROR, INVALID_MAXIMUM_DATE_ERROR,
   MINIMUM_DATE_EXCEEDS_MAXIMUM_DATE_ERROR}

(***************************************************************************)
(* BrokerApplicationsListRequestDto: transformation                        *)
(***************************************************************************)
\* @Type(() => Date): null and undefined pass through, a Date is copied,
\* anything else goes through new Date(value).
TypeDate(v) == IF IsNullish(v) THEN v ELSE NewDate(v)

\* The transform with its parse test negated.
TransformDate_NegatedTest(v) ==
  IF Truthy(v) /\ IsNaNTime(NewDate(v)) THEN NewDate(v) ELSE Null

\* The transform without its parse test.
TransformDate_NoTest(v) ==
  IF Truthy(v) THEN NewDate(v) ELSE Null

\* @Transform(({ value }) =>
\*   (value && !isNaN(new Date(value).getTime()) ? new Date(value) : null))
TransformDate(v) ==
  IF Truthy(v) /\ ~IsNaNTime(NewDate(v)) THEN NewDate(v) ELSE Null

\* One date property of the instance: a key missing from the query string
\* is not visited and stays undefined.
DateProperty(raw) ==
  IF raw.kind = "undefined" THEN Undefined ELSE TransformDate(TypeDate(raw))

PlainToInstance(q) ==
  [status      |-> q.status,
   completed   |-> q.completed,
   minimumDate |-> DateProperty(q.minimumDate),
   maximumDate |-> DateProperty(q.maximumDate)]

(***************************************************************************)
(* BrokerApplicationsListRequestDto: validation.  A failure is a record    *)
(* naming the property and the constraint that failed.                     *)
(***************************************************************************)
Failure(p, c) == [property |-> p, constraint |-> c]

IsEnumValue(v, enum) == v.kind = "string" /\ v.s \in enum

\* The status checks without @IsArray().
ValidateStatus_NoIsArray(v) ==
  IF IsNullish(v) THEN {}
  ELSE IF v.kind = "array"
       THEN IF \A i \in 1..Len(v.items) : IsEnumValue(v.items[i], ApplicationStatus)
            THEN {} ELSE {Failure("status", "isEnum")}
       ELSE IF IsEnumValue(v, ApplicationStatus)
            THEN {} ELSE {Failure("status", "isEnum")}

\* @IsArray() @IsEnum(ApplicationStatus, { each: true }) @IsOptional()
ValidateStatus(v) ==
  IF IsNullish(v) THEN {}
  ELSE (IF v.kind = "array" THEN {} ELSE {Failure("status", "isArray")})
       \cup
       (IF v.kind = "array"
        THEN IF \A i \in 1..Len(v.items) : IsEnumValue(v.items[i], ApplicationStatus)
             THEN {} ELSE {Failure("status", "isEnum")}
        ELSE IF IsEnumValue(v, ApplicationStatus)
             THEN {} ELSE {Failure("status", "isEnum")})

\* @IsEnum(TaskStatus) @IsOptional()
ValidateCompleted(v) ==
  IF IsNullish(v) THEN {}
  ELSE IF IsEnumValue(v, TaskStatus) THEN {} ELSE {Failure("completed", "isEnum")}

\* @IsDate() @IsOptional()
ValidateDate(p, v) ==
  IF IsNullish(v) THEN {}
  ELSE IF v.kind = "date" /\ ~IsNaNTime(v) THEN {} ELSE {Failure(p, "isDate")}

Validate(d) ==
  ValidateStatus(d.status) \cup ValidateCompleted(d.completed)
    \cup ValidateDate("minimumDate", d.minimumDate)
    \cup ValidateDate("maximumDate", d.maximumDate)

\* The range check on the two transformed dates.
DateRangeCheck(d) ==
  IF /\ d.minimumDate.kind = "date"
     /\ d.maximumDate.kind = "date"
     /\ d.minimumDate.time > d.maximumDate.time
  THEN {MINIMUM_DATE_EXCEEDS_MAXIMUM_DATE_ERROR}
  ELSE {}

\* What the request boundary answers for an instance: every check that
\* failed, and acceptance when none did.
Outcome(d) ==
  [phase    |-> "done",
   accepted |-> Validate(d) = {} /\ DateRangeCheck(d) = {},
   failures |-> Validate(d),
   messages |-> DateRangeCheck(d)]

(***************************************************************************)
(* Inputs of the list request                                              *)
(***************************************************************************)
Chars(s) ==
  CASE s = "" -> <<>>
    [] s = "not-a-date" -> <<"n", "o", "t", "-", "a", "-", "d", "a", "t", "e">>
    [] s = "2023-13-01" -> <<"2", "0", "2", "3", "-", "1", "3", "-", "0", "1">>
    [] s = "2023-01-01" -> <<"2", "0", "2", "3", "-", "0", "1", "-", "0", "1">>
    [] s = "2024-01-01" -> <<"2", "0", "2", "4", "-", "0", "1", "-", "0", "1">>
    [] s = "2024-02-29" -> <<"2", "0", "2", "4", "-", "0", "2", "-", "2", "9">>

DateStrings ==
  {"", "not-a-date", "2023-13-01", "2023-01-01", "2024-01-01", "2024-02-29"}

DateInputs == {Undefined} \cup {Str(Chars(s)) : s \in DateStrings}

StatusWords == {"Pending", "OnHold", "NotARealStatus"}

SeqsUpTo(S, n) == UNION {[1..k -> S] : k \in 0..n}

StatusInputs ==
  {Undefined} \cup {Str(w) : w \in StatusWords}
    \cup {Arr(items) : items \in SeqsUpTo({Str(w) : w \in StatusWords}, MaxStatusLen)}

CompletedInputs ==
  {Undefined} \cup {Str(w) : w \in {"Completed", "Pending", "InProgress", "NotATaskStatus"}}

Queries ==
  [status : StatusInputs, completed : CompletedInputs,
   minimumDate : DateInputs, maximumDate : DateInputs]

EmptyQuery ==
  [status |-> Undefined, completed |-> Undefined,
   minimumDate |-> Undefined, maximumDate |-> Undefined]

Idle == [phase |-> "idle", accepted |-> FALSE, failures |-> {}, messages |-> {}]

(***************************************************************************)
(* Application: attributes in the order the class declares them, each with *)
(* the column its @Column names.  applicationId is virtual.                *)
(***************************************************************************)
AttributeFields ==
  << <<"id", "id">>,
     <<"applicantName", "applicant_name">>,
     <<"applicantEmail", "applicant_email">>,
     <<"applicantMobilePhoneNumber", "applicant_mobile_phone_number">>,
     <<"applicantAddress", "applicant_address">>,
     <<"brokerId", "broker_id">>,
     <<"annualIncomeBeforeTax", "annual_income_before_tax">>,
     <<"incomingAddress", "incoming_address">>,
     <<"incomingDeposit", "incoming_deposit">>,
     <<"incomingPrice", "incoming_price">>,
     <<"incomingStampDuty", "incoming_stamp_duty">>,
     <<"loanAmount", "loan_amount">>,
     <<"loanDuration", "loan_duration">>,
     <<"monthlyExpenses", "monthly_expenses">>,
     <<"outgoingAddress", "outgoing_address">>,
     <<"outgoingMortgage", "outgoing_valuation">>,
     <<"outgoingValuation", "outgoing_valuation">>,
     <<"savingsContribution", "savings_contribution">>,
     <<"status", "status">>,
     <<"createdAt", "created_at">>,
     <<"updatedAt", "updated_at">> >>

PersistedAttributes == {AttributeFields[i][1] : i \in 1..Len(AttributeFields)}

\* Position of an attribute in the declaration order
AttrIndex ==
  [a \in PersistedAttributes |->
     CHOOSE i \in 1..Len(AttributeFields) : AttributeFields[i][1] = a]

\* The column an attribute is stored in
FieldOf == [a \in PersistedAttributes |-> AttributeFields[AttrIndex[a]][2]]

VirtualAttributes == {"applicationId"}

AttributeNames == PersistedAttributes \cup VirtualAttributes

\* @Exclude()
Excluded == {"id", "createdAt", "updatedAt"}

\* The attribute values of a write, as column values: attributes are taken
\* in declaration order, so of two attributes naming one column the later
\* one's value is the one stored.
MapValueFieldNames(values) ==
  [f \in {FieldOf[a] : a \in DOMAIN values} |->
     LET writers == {a \in DOMAIN values : FieldOf[a] = f}
         last    == CHOOSE a \in writers :
                      \A b \in writers : AttrIndex[b] <= AttrIndex[a]
     IN  values[last]]

\* number.toString()
RECURSIVE ToString(_)
ToString(n) ==
  LET d == <<"0", "1", "2", "3", "4", "5", "6", "7", "8", "9">>[(n % 10) + 1]
  IN  IF n < 10 THEN <<d>> ELSE ToString(n \div 10) \o <<d>>

\* fill repeated and cut to n characters
RECURSIVE Repeat(_, _)
Repeat(fill, n) ==
  IF n <= 0 THEN <<>>
  ELSE IF n <= Len(fill) THEN SubSeq(fill, 1, n)
  ELSE fill \o Repeat(fill, n - Len(fill))

\* string.padStart(targetLength, fill)
PadStart(cs, targetLength, fill) ==
  IF Len(cs) >= targetLength \/ fill = <<>> THEN cs
  ELSE Repeat(fill, targetLength - Len(cs)) \o cs

\* padStart that cuts the string to the target length
PadStart_Truncating(cs, targetLength, fill) ==
  IF Len(cs) >= targetLength
  THEN SubSeq(cs, Len(cs) - targetLength + 1, Len(cs))
  ELSE Repeat(fill, targetLength - Len(cs)) \o cs

\* The getter with a padStart that truncates
ApplicationId_Truncating(row) ==
  <<"A">> \o PadStart_Truncating(ToString(row.id), 5, <<"0">>)

\* get() { const id = this.getDataValue('id');
\*         return `A${id.toString().padStart(5, '0')}`; }
ApplicationId(row) == <<"A">> \o PadStart(ToString(row.id), 5, <<"0">>)

\* Reading an attribute of a loaded row
Get(row, a) == IF a = "applicationId" THEN ApplicationId(row) ELSE row[FieldOf[a]]

Instance(row) == [a \in AttributeNames |-> Get(row, a)]

(***************************************************************************)
(* Response shapes                                                         *)
(***************************************************************************)
PickType(instance, keys) == [k \in keys |-> instance[k]]

ApplicationDtoKeys ==
  {"applicantName", "applicantEmail", "applicantMobilePhoneNumber",
   "applicantAddress", "annualIncomeBeforeTax", "incomingAddress",
   "incomingDeposit", "incomingPrice", "incomingStampDuty", "loanAmount",
   "loanDuration", "monthlyExpenses", "outgoingAddress", "outgoingMortgage",
   "outgoingValuation", "savingsContribution"}

\* The list item with updatedAt picked as well
BrokerApplicationDtoKeys_WithUpdatedAt ==
  {"id", "applicationId", "createdAt", "updatedAt", "status", "loanAmount",
   "loanDuration", "applicantName", "incomingAddress", "outgoingAddress"}

\* The list item without the display identifier
BrokerApplicationDtoKeys_NoApplicationId ==
  {"id", "createdAt", "status", "loanAmount",
   "loanDuration", "applicantName", "incomingAddress", "outgoingAddress"}

BrokerApplicationDtoKeys ==
  {"id", "applicationId", "createdAt", "status", "loanAmount",
   "loanDuration", "applicantName", "incomingAddress", "outgoingAddress"}

\* Serializing the entity itself: every attribute but the excluded ones
InstanceToPlain(instance) == PickType(instance, AttributeNames \ Excluded)

(***************************************************************************)
(* The applications table                                                  *)
(***************************************************************************)
StartIds == {7, 99999, 123456}

PropertyAmounts == {10, 20}

InsertStatuses == {"Pending", "OnHold"}

\* The clock reading of every write of the model: 2023-06-15
Now == DaysFromCivil(2023, 6, 15)

NewValues ==
  [outgoingMortgage : PropertyAmounts, outgoingValuation : PropertyAmounts,
   status : InsertStatuses]

\* The attributes of a new application; the caller chooses v
CreationAttributes(v) ==
  [applicantName |-> "Ann", applicantEmail |-> "ann@example.com",
   applicantMobilePhoneNumber |-> "0400000000", applicantAddress |-> "1 Home St",
   brokerId |-> 1, annualIncomeBeforeTax |-> 90000, incomingAddress |-> "2 New St",
   incomingDeposit |-> 50, incomingPrice |-> 500, incomingStampDuty |-> 25,
   loanAmount |-> 250, loanDuration |-> 360, monthlyExpenses |-> 3,
   outgoingAddress |-> "3 Old St", outgoingMortgage |-> v.outgoingMortgage,
   outgoingValuation |-> v.outgoingValuation, savingsContribution |-> 5,
   status |-> v.status]

Ids == {applications[i].id : i \in 1..Len(applications)}

RowOf(id) == applications[CHOOSE i \in 1..Len(applications) : applications[i].id = id]

InitTable ==
  /\ applications = <<>>
  /\ nextId \in StartIds
  /\ lastOp = [op |-> "none"]

\* Application.create(values): the key comes from the sequence, both
\* timestamps from the clock.
Insert(v) ==
  /\ Len(applications) < MaxRows
  /\ LET columns == MapValueFieldNames(CreationAttributes(v))
         row == [f \in DOMAIN columns \cup {"id", "created_at", "updated_at"} |->
                   CASE f = "id" -> nextId
                     [] f \in {"created_at", "updated_at"} -> Now
                     [] OTHER -> columns[f]]
     IN  applications' = Append(applications, row)
  /\ nextId' = nextId + 1
  /\ lastOp' = [op |-> "insert", id |-> nextId]
  /\ UNCHANGED filterVars

UpdatableValues(a) ==
  CASE a \in {"outgoingMortgage", "outgoingValuation"} -> PropertyAmounts
    [] a = "status" -> InsertStatuses

\* application.update({ [a]: value })
Update(id, a, value) ==
  /\ id \in Ids
  /\ LET columns == MapValueFieldNames([x \in {a} |-> value])
     IN  applications' =
           [i \in 1..Len(applications) |->
              IF applications[i].id = id
              THEN [f \in DOMAIN applications[i] |->
                      CASE f \in DOMAIN columns -> columns[f]
                        [] f = "updated_at" -> Now
                        [] OTHER -> applications[i][f]]
              ELSE applications[i]]
  /\ lastOp' = [op |-> "update", id |-> id, attribute |-> a, value |-> value]
  /\ UNCHANGED <<nextId, filterVars>>

\* Reading application.applicationId of a stored row
ReadApplicationId(id) ==
  /\ id \in Ids
  /\ lastOp' = [op |-> "read", id |-> id,
                applicationId |-> Get(RowOf(id), "applicationId")]
  /\ UNCHANGED <<applications, nextId, filterVars>>

\* What the aggregate query can answer: over no rows the database answers
\* one row whose average is NULL; no row at all and a NaN average are the
\* other answers the method provides for.  Over rows, the average is kept
\* as a whole number.
RECURSIVE SumLoans(_)
SumLoans(rows) ==
  IF rows = <<>> THEN 0 ELSE rows[1].loan_amount + SumLoans(Tail(rows))

AverageRow(v) == [kind |-> "row", averageLoanAmount |-> v]

FindOneAverage ==
  IF applications = <<>>
  THEN {Null, AverageRow(Null), AverageRow(NaN)}
  ELSE {AverageRow(Num(SumLoans(applications) \div Len(applications)))}

\* result?.get('averageLoanAmount')
OptionalGet(result) ==
  IF IsNullish(result) THEN Undefined ELSE result.averageLoanAmount

\* The method without its "|| 0"
AverageLoanAmount_NoDefault(result) == OptionalGet(result)

\* const res = result?.get('averageLoanAmount') || 0; return res
AverageLoanAmount(result) == JsOr(OptionalGet(result), Num(0))

GetAverageLoanAmount ==
  /\ \E result \in FindOneAverage :
       lastOp' = [op |-> "average", rows |-> Len(applications),
                  result |-> result, value |-> AverageLoanAmount(result)]
  /\ UNCHANGED <<applications, nextId, filterVars>>

\* The entity serialized as it is
SerializeApplication(id) ==
  /\ id \in Ids
  /\ lastOp' = [op |-> "serialize", id |-> id, body |-> InstanceToPlain(Instance(RowOf(id)))]
  /\ UNCHANGED <<applications, nextId, filterVars>>

\* The application in the detail shape
ProjectDetail(id) ==
  /\ id \in Ids
  /\ lastOp' = [op |-> "detail", id |-> id,
                body |-> PickType(Instance(RowOf(id)), ApplicationDtoKeys)]
  /\ UNCHANGED <<applications, nextId, filterVars>>

\* The queries the list handler is driven with
Q(status, completed, min, max) ==
  [status |-> status, completed |-> completed,
   minimumDate |-> min, maximumDate |-> max]

ListQueries ==
  {EmptyQuery,
   Q(Arr(<<Str("Pending")>>), Undefined, Undefined, Undefined),
   Q(Arr(<<Str("OnHold")>>), Undefined, Str(Chars("2023-01-01")), Undefined),
   Q(Undefined, Str("Completed"), Undefined, Str(Chars("2024-01-01"))),
   Q(Undefined, Undefined, Str(Chars("2024-01-01")), Undefined),
   Q(Undefined, Undefined, Str(Chars("2024-01-01")), Str(Chars("2023-01-01")))}

\* Whether a row is selected by an accepted filter.  Which applications
\* pass the completed filter is decided by their tasks: withTasks is the
\* set of keys the task relation lets through.
Matches(row, d, withTasks) ==
  /\ IsNullish(d.status)
       \/ \E i \in 1..Len(d.status.items) : d.status.items[i].s = row.status
  /\ IsNullish(d.completed) \/ row.id \in withTasks
  /\ d.minimumDate.kind = "date" => d.minimumDate.time <= row.created_at
  /\ d.maximumDate.kind = "date" => row.created_at <= d.maximumDate.time

\* GET list: the query is validated; a rejected query is answered with the
\* failure, an accepted one with the matching rows in the list-item shape.
ListApplications(q, withTasks) ==
  /\ LET d == PlainToInstance(q)
         o == Outcome(d)
         Test(row) == Matches(row, d, withTasks)
         rows == SelectSeq(applications, Test)
     IN  lastOp' =
           IF o.accepted
           THEN [op |-> "list", accepted |-> TRUE, matched |-> Len(rows),
                 applications |->
                   [i \in 1..Len(rows) |->
                      PickType(Instance(rows[i]), BrokerApplicationDtoKeys)]]
           ELSE [op |-> "list", accepted |-> FALSE, matched |-> 0,
                 applications |-> <<>>]
  /\ UNCHANGED <<applications, nextId, filterVars>>

NextEntity ==
  \/ \E v \in NewValues : Insert(v)
  \/ \E id \in Ids, a \in {"outgoingMortgage", "outgoingValuation", "status"} :
       \E value \in UpdatableValues(a) : Update(id, a, value)
  \/ \E id \in Ids : ReadApplicationId(id)
  \/ GetAverageLoanAmount
  \/ \E id \in Ids : SerializeApplication(id)
  \/ \E id \in Ids : ProjectDetail(id)
  \/ \E q \in ListQueries : \E withTasks \in SUBSET Ids :
       (IsNullish(q.completed) => withTasks = {}) /\ ListApplications(q, withTasks)

(***************************************************************************)
(* The list request at the boundary                                        *)
(***************************************************************************)
InitFilter ==
  /\ query = EmptyQuery
  /\ dto = PlainToInstance(EmptyQuery)
  /\ outcome = Idle

Init == InitFilter /\ InitTable

\* One request: the query string is transformed into an instance and the
\* instance is checked.
HandleRequest(q) ==
  /\ outcome.phase = "idle"
  /\ query' = q
  /\ dto' = PlainToInstance(q)
  /\ outcome' = Outcome(PlainToInstance(q))
  /\ UNCHANGED entityVars

\* The answer is sent; nothing of the request survives it.
Respond ==
  /\ outcome.phase = "done"
  /\ query' = EmptyQuery
  /\ dto' = PlainToInstance(EmptyQuery)
  /\ outcome' = Idle
  /\ UNCHANGED entityVars

NextFilter ==
  \/ \E q \in Queries : HandleRequest(q)
  \/ Respond

SpecFilter == Init /\ [][NextFilter]_vars

SpecEntity == Init /\ [][NextEntity]_vars

(***************************************************************************)
(* Properties of the list filter                                           *)
(***************************************************************************)
Handled == outcome.phase = "done"

\* A supplied, non-empty value that does not parse as a date
Unparseable(raw) ==
  raw.kind = "string" /\ raw.s # <<>> /\ ~DateParse(raw.s).valid

Parseable(raw) == raw.kind = "string" /\ DateParse(raw.s).valid

Inverted(q) ==
  /\ Parseable(q.minimumDate)
  /\ Parseable(q.maximumDate)
  /\ DateParse(q.minimumDate.s).time > DateParse(q.maximumDate.s).time

\* C1: a request whose minimumDate (maximumDate) is supplied, non-empty and
\* unparseable is rejected with INVALID_MINIMUM_DATE_ERROR
\* (INVALID_MAXIMUM_DATE_ERROR); it is never accepted as if the date were
\* absent.
C1_UnparseableDateRejected ==
  Handled =>
    /\ Unparseable(query.minimumDate) =>
         ~outcome.accepted /\ INVALID_MINIMUM_DATE_ERROR \in outcome.messages
    /\ Unparseable(query.maximumDate) =>
         ~outcome.accepted /\ INVALID_MAXIMUM_DATE_ERROR \in outcome.messages

C3_CompletedOnlyTwoValues ==
  (Handled /\ query.completed.kind # "undefined" /\ outcome.accepted)
    => query.completed \in {Str("Completed"), Str("Pending")}

StatusWellFormed(v) ==
  /\ v.kind = "array"
  /\ \A i \in 1..Len(v.items) :
       v.items[i].kind = "string" /\ v.items[i].s \in ApplicationStatus

StatusFailures == {f \in outcome.failures : f.property = "status"}

\* C4: a present status passes its checks if and only if it is an array
\* whose every element is a member of the application-status enumeration;
\* a non-array or an array with a non-member rejects the request, and an
\* absent status is accepted as no status filter.
C4_StatusValidation ==
  Handled =>
    /\ query.status.kind # "undefined" =>
         /\ StatusFailures = {} <=> StatusWellFormed(query.status)
         /\ ~StatusWellFormed(query.status) => ~outcome.accepted
    /\ query.status.kind = "undefined" =>
         StatusFailures = {} /\ dto.status = Undefined

C4_Witness ==
  /\ Handled
  /\ query.status = Arr(<<Str("Pending"), Str("OnHold")>>)
  /\ outcome.accepted

\* What the transform owes one date parameter, given that parameter alone
DateTransformed(raw, value) ==
  /\ value.kind \in {"undefined", "null", "date"}
  /\ value.kind = "date" => value.valid
  /\ Parseable(raw) => value = DateObj(DateParse(raw.s).time)
  /\ (raw.kind = "string" /\ ~Parseable(raw)) => value = Null

\* C9: the date transform acts on minimumDate and on maximumDate
\* independently and never raises: a value that parses becomes that date,
\* an empty or unparseable value becomes null, and the result for one
\* parameter is determined by that parameter alone.
C9_DateTransform ==
  Handled =>
    /\ DateTransformed(query.minimumDate, dto.minimumDate)
    /\ DateTransformed(query.maximumDate, dto.maximumDate)

C9_Witness ==
  /\ Handled
  /\ Unparseable(query.minimumDate)
  /\ dto.minimumDate = Null
  /\ Parseable(query.maximumDate)
  /\ dto.maximumDate.kind = "date"

(***************************************************************************)
(* Properties of the Application entity and of the response shapes         *)
(***************************************************************************)
\* Decimal digits of a key, counted by magnitude
DigitCount(k) ==
  CASE k < 10 -> 1 [] k < 100 -> 2 [] k < 1000 -> 3 [] k < 10000 -> 4
    [] k < 100000 -> 5 [] k < 1000000 -> 6 [] OTHER -> 7

\* "A", then digits only, at least five of them, no more than the key
\* needs beyond that, and reading back as the key
IsDisplayIdOf(cs, k) ==
  /\ Len(cs) = 1 + (IF DigitCount(k) > 5 THEN DigitCount(k) ELSE 5)
  /\ cs[1] = "A"
  /\ AllDigits(Tail(cs))
  /\ ParseInt(Tail(cs)) = k

\* The row of a key after the step
RowAfter(id) ==
  applications'[CHOOSE i \in 1..Len(applications') : applications'[i].id = id]

\* C5: for every assigned key k, applicationId is "A" followed by the
\* decimal digits of k left-padded with zeros to at least 5 characters
\* (7 gives A00007), never truncated (123456 gives A123456); it depends on
\* the key alone, so no insert or update changes what a row's
\* applicationId reads as.
C5_ApplicationId ==
  /\ [](/\ \A id \in Ids : IsDisplayIdOf(Get(RowOf(id), "applicationId"), id)
        /\ 7 \in Ids =>
             Get(RowOf(7), "applicationId") = <<"A", "0", "0", "0", "0", "7">>
        /\ 123456 \in Ids =>
             Get(RowOf(123456), "applicationId") = <<"A", "1", "2", "3", "4", "5", "6">>
        /\ lastOp.op = "read" => IsDisplayIdOf(lastOp.applicationId, lastOp.id))
  /\ [][\A id \in Ids :
          Get(RowAfter(id), "applicationId") = Get(RowOf(id), "applicationId")]_vars

C5_Witness ==
  /\ lastOp.op = "read"
  /\ lastOp.id = 123456
  /\ lastOp.applicationId = <<"A", "1", "2", "3", "4", "5", "6">>
  /\ Len(applications) = 2

\* C6: getAverageLoanAmount() returns 0 whenever the table has no rows:
\* with no result row, or a row whose average is null or NaN, the value
\* returned is the number 0.
C6_AverageOfNoRows ==
  (lastOp.op = "average" /\ lastOp.rows = 0) => lastOp.value = Num(0)

C6_Witness ==
  /\ lastOp.op = "average"
  /\ applications = <<>>
  /\ lastOp.result = AverageRow(Null)
  /\ lastOp.value = Num(0)

\* The bodies an operation has put in front of a caller
Bodies ==
  CASE lastOp.op = "list" ->
         {lastOp.applications[i] : i \in 1..Len(lastOp.applications)}
    [] lastOp.op \in {"serialize", "detail"} -> {lastOp.body}
    [] OTHER -> {}

\* C7: id, createdAt and updatedAt are excluded from every
\* externally-visible representation: no response shape derived from the
\* entity, the list item and the detail shape included, exposes any of
\* them.
C7_NeverExposed ==
  \A body \in Bodies : DOMAIN body \cap {"id", "createdAt", "updatedAt"} = {}

\* C7 as amended: the entity's own serialization and the detail shape
\* expose none of id, createdAt and updatedAt, and no shape exposes
\* updatedAt; the list item is the exception, it carries id and createdAt.
C7_ExcludedExceptListItem ==
  /\ lastOp.op \in {"serialize", "detail"} =>
       DOMAIN lastOp.body \cap {"id", "createdAt", "updatedAt"} = {}
  /\ lastOp.op = "list" =>
       \A i \in 1..Len(lastOp.applications) :
         DOMAIN lastOp.applications[i] \cap {"id", "createdAt", "updatedAt"}
           = {"id", "createdAt"}

C7_Witness ==
  /\ lastOp.op = "list"
  /\ Len(lastOp.applications) = 2
  /\ "id" \in DOMAIN lastOp.applications[1]

\* C8: every item of the list response carries exactly the nine fields id,
\* applicationId, createdAt, status, loanAmount, loanDuration,
\* applicantName, incomingAddress and outgoingAddress, one item per
\* matched row, each field with the row's value, and no other field.
C8_ListItemShape ==
  (lastOp.op = "list" /\ lastOp.accepted) =>
    /\ Len(lastOp.applications) = lastOp.matched
    /\ \A i \in 1..Len(lastOp.applications) :
         LET item == lastOp.applications[i]
         IN  /\ DOMAIN item =
                  {"id", "applicationId", "createdAt", "status", "loanAmount",
                   "loanDuration", "applicantName", "incomingAddress",
                   "outgoingAddress"}
             /\ item.id \in Ids
             /\ item.status = RowOf(item.id).status
             /\ item.createdAt = RowOf(item.id).created_at
             /\ IsDisplayIdOf(item.applicationId, item.id)

C8_Witness ==
  /\ lastOp.op = "list"
  /\ lastOp.accepted
  /\ Len(applications) = 2
  /\ Len(lastOp.applications) = 1
  /\ lastOp.applications[1].status = "OnHold"

\* C10: every persisted attribute has its own column: writing
\* outgoingMortgage leaves outgoingValuation unchanged, writing
\* outgoingValuation leaves outgoingMortgage unchanged, and the attribute
\* written reads back the value written.
C10_IndependentColumns ==
  [][lastOp'.op = "update" =>
       \A id \in Ids :
         /\ lastOp'.attribute = "outgoingMortgage" =>
              Get(RowAfter(id), "outgoingValuation") = Get(RowOf(id), "outgoingValuation")
         /\ lastOp'.attribute = "outgoingValuation" =>
              Get(RowAfter(id), "outgoingMortgage") = Get(RowOf(id), "outgoingMortgage")
         /\ lastOp'.id = id =>
              Get(RowAfter(id), lastOp'.attribute) = lastOp'.value]_vars

====
